---------------------------- MODULE Spec2Model ----------------------------
(***************************************************************************)
(* A model of the TVBoy bank-switching scheme (src/src/emucore/            *)
(* CartTVBoy.cxx).  The scheme is a CartridgeEnhanced whose bank() locks   *)
(* all further bank switching after the first switch to a non-zero bank.   *)
(*                                                                         *)
(* CartridgeEnhanced, System and Serializer are not among the sources; the *)
(* operators that stand for them (CartridgeEnhanced_*, putField, getField, *)
(* BankSizes, romBankCount) follow the specification document.             *)
(***************************************************************************)
EXTENDS Integers, Sequences, FiniteSets, TLC

VARIABLES
  mySize,             \* size of the ROM image handed to CartridgeEnhanced
  myBankSize,         \* size of one bank (romBankCount = mySize / myBankSize)
  myCurrentBank,      \* the bank mapped into the window (base scheme state)
  myBankingDisabled,  \* CartridgeTVBoy's lock flag
  stream,             \* the fields held by the Serializer, in order
  savedFrom,          \* history: the state the last save() was called in
  constructed,        \* the constructor has produced an instance
  lastOp,             \* history: the last operation, its inputs and results
  pending,            \* a bus address waiting to be issued (NoAddr: none)
  myRenderer,         \* FrameBufferSDL2: the SDL renderer (NoRenderer: nullptr)
  myWindow,           \* FrameBufferSDL2: an SDL window exists
  video,              \* the setting "video": the name of the render driver
  vsync,              \* the setting "vsync"
  turbo,              \* the setting "turbo"
  sdlCalls,           \* the calls the destructor has made, in order
  fbOp,               \* history: the last frame buffer operation
  _rows,              \* ToggleWidget: the rows of the grid
  _cols,              \* the columns of the grid
  _rowHeight,         \* the height of a row in pixels
  _colWidth,          \* the width of a column in pixels
  _currentRow,        \* the row of the cursor
  _currentCol,        \* the column of the cursor
  _selectedItem,      \* the index of the selected item
  _stateList,         \* the state of each item
  _changedList,       \* whether each item has changed
  _clicksToChange,    \* the click count that toggles an item
  _editable,          \* the items may be toggled
  enabled,            \* Widget::isEnabled()
  twOp                \* history: the last widget event

cartVars == <<mySize, myBankSize, myCurrentBank, myBankingDisabled,
              stream, savedFrom, constructed, lastOp, pending>>

fbVars == <<myRenderer, myWindow, video, vsync, turbo, sdlCalls, fbOp>>

twVars == <<_rows, _cols, _rowHeight, _colWidth, _currentRow, _currentCol,
            _selectedItem, _stateList, _changedList, _clicksToChange,
            _editable, enabled, twOp>>

vars == <<mySize, myBankSize, myCurrentBank, myBankingDisabled,
          stream, savedFrom, constructed, lastOp, pending,
          myRenderer, myWindow, video, vsync, turbo, sdlCalls, fbOp,
          _rows, _cols, _rowHeight, _colWidth, _currentRow, _currentCol,
          _selectedItem, _stateList, _changedList, _clicksToChange,
          _editable, enabled, twOp>>

---------------------------------------------------------------------------
(* Program constants *)

\* System::ADDR_MASK as used by checkSwitchBank: the 13 address lines of the 6507
ADDR_MASK == 8191
\* first address of the hot range, 0x1800
HotLo == 6144
\* last address of the hot range, 0x187F
HotHi == 6271
\* 512_KB, the scheme's declared image size
Size512K == 524288
\* number of values of a uInt16 bus address
AddrSpace == 65536
\* SDL_RENDERER_ACCELERATED
SDL_RENDERER_ACCELERATED == 2
\* SDL_RENDERER_PRESENTVSYNC
SDL_RENDERER_PRESENTVSYNC == 4

(* Bounds of the model *)

\* how many addresses below and above the hot range the bus issues
Margin == 2
\* the bus issues the hot-range offsets 0 .. MaxHotOffset (and the last one)
MaxHotOffset == 5
\* the bus issues addresses of the mirrors 0 .. MaxMirror of the 8K window
MaxMirror == 1
\* image sizes 512K + k * 4K, k in 0 .. MaxExtra
MaxExtra == 1
\* the loader also offers the short images 512K - k * 4K, k in 1 .. MaxShort
MaxShort == 1
\* the renderers SDL creates have the flag words 0 .. MaxSdlFlags
MaxSdlFlags == 7
\* the toggle widget has 1 .. MaxRows rows
MaxRows == 2
\* the toggle widget has 1 .. MaxCols columns
MaxCols == 2
\* rows are 2 .. MaxCell pixels high and columns 2 .. MaxCell pixels wide
MaxCell == 2
\* a mouse event has a click count 1 .. MaxClicks
MaxClicks == 2
\* the decode runs start after a switch to one of the banks 1 .. MaxPrelude, or fresh
MaxPrelude == 1

NoAddr == 0 - 1
NoBank == 0 - 1
NoMirror == 0 - 1
NoFlags == 0 - 1
NoIndex == 0 - 2

---------------------------------------------------------------------------
(* Bit arithmetic *)

RECURSIVE BitAnd(_, _)
\* the C++ operator & on non-negative integers
BitAnd(a, b) ==
  IF a = 0 \/ b = 0 THEN 0
  ELSE (a % 2) * (b % 2) + 2 * BitAnd(a \div 2, b \div 2)

\* conversion to uInt16
U16(n) == n % AddrSpace

---------------------------------------------------------------------------
(* The base scheme, from the specification document *)

\* bank sizes: the 4K window-sized bank, and the 64K bank of the
\* "8-bank, 512KB image" scenario
BankSizes == {4096, 65536}

\* images the scheme is constructed with: at least the declared 512KB
ImageSizes == { Size512K + k * 4096 : k \in 0 .. MaxExtra }

\* images smaller than the declared 512KB
ShortSizes == { Size512K - k * 4096 : k \in 1 .. MaxShort }

\* the images the loader offers to the constructor
OfferedSizes == ImageSizes \cup ShortSizes

\* the base scheme's constructor: an image smaller than the size the scheme
\* declares is a configuration error, and no instance is produced
CartridgeEnhanced_ctor(size, bsSize) == size >= bsSize

\* CartridgeEnhanced::romBankCount
romBankCount(size, bankSize) == U16(size \div bankSize)

\* CartridgeEnhanced::bank: re-selecting the active bank is a no-op that
\* reports "no change"; any other value is reduced modulo the bank count
\* and becomes the current bank.
CartridgeEnhanced_bank(cur, b, count) ==
  IF b % count = cur
    THEN [banked |-> FALSE, cur |-> cur]
    ELSE [banked |-> TRUE,  cur |-> b % count]

---------------------------------------------------------------------------
(* The Serializer and the base scheme's persistence, from the             *)
(* specification document: the stream is an ordered sequence of           *)
(* primitive-typed fields; a write or a read may fail, and a read fails   *)
(* when the stream holds no field of the asked type at its position.      *)

\* a field of the stream
Field(kind, val) == [kind |-> kind, val |-> val]

\* Serializer::put*: appends the field unless the write fails
putField(s, kind, val, fails) ==
  IF fails THEN [ok |-> FALSE, s |-> s]
           ELSE [ok |-> TRUE,  s |-> Append(s, Field(kind, val))]

\* Serializer::get*: the field at pos, when there is one of that type
getField(s, pos, kind, fails) ==
  IF fails \/ pos > Len(s) \/ s[pos].kind # kind
    THEN [ok |-> FALSE, val |-> 0, pos |-> pos]
    ELSE [ok |-> TRUE,  val |-> s[pos].val, pos |-> pos + 1]

\* CartridgeEnhanced::save: writes the base scheme's state, the current bank
CartridgeEnhanced_save(s, cur, fails) == putField(s, "int", cur, fails)

\* CartridgeEnhanced::load: reads the current bank and replaces the live one;
\* a failed read leaves the base scheme's state as it was
CartridgeEnhanced_load(s, pos, cur, fails) ==
  LET g == getField(s, pos, "int", fails)
  IN  [ok |-> g.ok, cur |-> IF g.ok THEN g.val ELSE cur, pos |-> g.pos]

\* the entry of the io log of a write or read that succeeded
IoEntry(ok, name, pos) == IF ok THEN <<[field |-> name, pos |-> pos]>> ELSE <<>>

---------------------------------------------------------------------------
(* CartridgeTVBoy *)

\* the mutant of TargetBank that forgets the "- 1" of the mask
TargetBank_NoMinusOne(address, count) == BitAnd(address, count)

\* the argument of bank() in checkSwitchBank: address & (romBankCount() - 1)
TargetBank(address, count) == U16(BitAnd(address, count - 1))

\* the mutant of InHotRange whose upper bound is one address too high
InHotRange_OffByOne(address) ==
  LET masked == BitAnd(address, ADDR_MASK)
  IN  masked >= HotLo /\ masked <= HotHi + 1

\* the mutant of InHotRange that compares the address without masking it
InHotRange_NoMask(address) == address >= HotLo /\ address <= HotHi

\* the condition of checkSwitchBank
InHotRange(address) ==
  LET masked == BitAnd(address, ADDR_MASK)
  IN  masked >= HotLo /\ masked <= HotHi

\* the mutant of bank that does not test the lock
bank_IgnoresLock(cur, locked, b, count) ==
  LET r == CartridgeEnhanced_bank(cur, b, count)
  IN  [banked |-> r.banked, cur |-> r.cur,
       locked |-> IF r.banked /\ b # 0 THEN TRUE ELSE locked]

\* the mutant of bank that never sets the lock
bank_NeverLocks(cur, locked, b, count) ==
  IF locked THEN [banked |-> FALSE, cur |-> cur, locked |-> locked]
  ELSE LET r == CartridgeEnhanced_bank(cur, b, count)
       IN  [banked |-> r.banked, cur |-> r.cur, locked |-> locked]

\* the mutant of bank that locks on every call, whatever the bank and
\* whatever the base scheme reports
bank_LocksOnAnyCall(cur, locked, b, count) ==
  IF locked THEN [banked |-> FALSE, cur |-> cur, locked |-> locked]
  ELSE LET r == CartridgeEnhanced_bank(cur, b, count)
       IN  [banked |-> r.banked, cur |-> r.cur, locked |-> TRUE]

\* the mutant of bank that locks on a non-zero bank without looking at
\* what the base scheme reports
bank_LocksWithoutSwitch(cur, locked, b, count) ==
  IF locked THEN [banked |-> FALSE, cur |-> cur, locked |-> locked]
  ELSE LET r == CartridgeEnhanced_bank(cur, b, count)
       IN  [banked |-> r.banked, cur |-> r.cur,
            locked |-> IF b # 0 THEN TRUE ELSE locked]

\* the mutant of bank that returns true after every call of the base scheme
bank_ReportsSwitch(cur, locked, b, count) ==
  IF locked THEN [banked |-> FALSE, cur |-> cur, locked |-> locked]
  ELSE LET r == CartridgeEnhanced_bank(cur, b, count)
       IN  [banked |-> TRUE, cur |-> r.cur,
            locked |-> IF r.banked /\ b # 0 THEN TRUE ELSE locked]

\* CartridgeTVBoy::bank
bank(cur, locked, b, count) ==
  IF locked THEN [banked |-> FALSE, cur |-> cur, locked |-> locked]
  ELSE LET r == CartridgeEnhanced_bank(cur, b, count)
       IN  [banked |-> r.banked, cur |-> r.cur,
            locked |-> IF r.banked /\ b # 0 THEN TRUE ELSE locked]

\* the mutant of checkSwitchBank that returns what bank() returned
checkSwitchBank_ReturnsBanked(cur, locked, address, count) ==
  IF InHotRange(address)
    THEN LET target == TargetBank(address, count)
             r == bank(cur, locked, target, count)
         IN  [ret |-> r.banked, req |-> target,
              banked |-> r.banked, cur |-> r.cur, locked |-> r.locked]
    ELSE [ret |-> FALSE, req |-> NoBank,
          banked |-> FALSE, cur |-> cur, locked |-> locked]

\* the mutant of the constructor that declares a single 4K bank
CartridgeTVBoy_ctor_DeclaresOneBank(size) == CartridgeEnhanced_ctor(size, 4096)

\* CartridgeTVBoy::CartridgeTVBoy: hands the image to the base scheme and
\* declares a size of 512_KB
CartridgeTVBoy_ctor(size) == CartridgeEnhanced_ctor(size, Size512K)

\* CartridgeTVBoy::checkSwitchBank
checkSwitchBank(cur, locked, address, count) ==
  IF InHotRange(address)
    THEN LET target == TargetBank(address, count)
             r == bank(cur, locked, target, count)
         IN  [ret |-> TRUE, req |-> target,
              banked |-> r.banked, cur |-> r.cur, locked |-> r.locked]
    ELSE [ret |-> FALSE, req |-> NoBank,
          banked |-> FALSE, cur |-> cur, locked |-> locked]

\* CartridgeTVBoy::save: the base scheme's save (its result is not looked at),
\* then putBool(myBankingDisabled); false when putBool throws
save(cur, locked, failBase, failFlag) ==
  LET b == CartridgeEnhanced_save(<<>>, cur, failBase)
      f == putField(b.s, "bool", locked, failFlag)
  IN  [ret |-> f.ok, s |-> f.s, baseOk |-> b.ok, flagOk |-> f.ok,
       io |-> IoEntry(b.ok, "base", 1)
              \o IoEntry(f.ok, "myBankingDisabled", Len(b.s) + 1)]

\* the mutant of load that reads the lock flag before the base scheme's state
load_FlagFirst(s, cur, locked, failBase, failFlag) ==
  LET f == getField(s, 1, "bool", failFlag)
      b == CartridgeEnhanced_load(s, f.pos, cur, failBase)
  IN  [ret |-> f.ok, cur |-> b.cur,
       locked |-> IF f.ok THEN f.val ELSE locked,
       baseOk |-> b.ok, flagOk |-> f.ok,
       io |-> IoEntry(f.ok, "myBankingDisabled", 1)
              \o IoEntry(b.ok, "base", f.pos)]

\* the mutant of load that reads the lock flag and does not store it
load_DropsFlag(s, cur, locked, failBase, failFlag) ==
  LET b == CartridgeEnhanced_load(s, 1, cur, failBase)
      f == getField(s, b.pos, "bool", failFlag)
  IN  [ret |-> f.ok, cur |-> b.cur, locked |-> locked,
       baseOk |-> b.ok, flagOk |-> f.ok,
       io |-> IoEntry(b.ok, "base", 1)
              \o IoEntry(f.ok, "myBankingDisabled", b.pos)]

\* CartridgeTVBoy::load: the base scheme's load (its result is not looked at),
\* then myBankingDisabled = getBool(); false when getBool throws
load(s, cur, locked, failBase, failFlag) ==
  LET b == CartridgeEnhanced_load(s, 1, cur, failBase)
      f == getField(s, b.pos, "bool", failFlag)
  IN  [ret |-> f.ok, cur |-> b.cur,
       locked |-> IF f.ok THEN f.val ELSE locked,
       baseOk |-> b.ok, flagOk |-> f.ok,
       io |-> IoEntry(b.ok, "base", 1)
              \o IoEntry(f.ok, "myBankingDisabled", b.pos)]

---------------------------------------------------------------------------
(* FrameBufferSDL2 (src/src/common/FrameBufferSDL2.cxx) *)

\* myRenderer == nullptr
NoRenderer == [flags |-> NoFlags, name |-> "none"]

\* the render drivers SDL has
DriverNames == {"opengl", "software"}

\* the values of the setting "video": no hint, or the name of a driver
VideoNames == {""} \cup DriverNames

\* what SDL_CreateRenderer may return: no renderer, or a renderer of any
\* driver with any flag word
SdlRenderers ==
  {NoRenderer} \cup [flags : 0 .. MaxSdlFlags, name : DriverNames]

\* the shape of fbOp
NoFBOp == [op |-> "init", seq |-> 0, ret |-> FALSE, reached |-> FALSE,
           force |-> FALSE, recreated |-> FALSE, repeated |-> FALSE,
           hadRenderer |-> FALSE, hadWindow |-> FALSE]

\* the frame buffer as its constructor leaves it, used by the runs that are
\* about the cartridge only
NoFrameBuffer ==
  /\ myRenderer = NoRenderer
  /\ myWindow = FALSE
  /\ video = ""
  /\ vsync = FALSE
  /\ turbo = FALSE
  /\ sdlCalls = <<>>
  /\ fbOp = NoFBOp

\* SDL_GetRendererInfo(renderer, &info) != 0: fails exactly for no renderer
SDL_GetRendererInfo_Fails(renderer) == renderer = NoRenderer

\* the flags createRenderer asks SDL for
renderFlags(vs, tb) ==
  SDL_RENDERER_ACCELERATED
    + (IF vs /\ ~tb THEN SDL_RENDERER_PRESENTVSYNC ELSE 0)

\* the test "a new renderer is necessary" of createRenderer
recreate(renderer, vid, vs, tb, force) ==
  \/ force
  \/ renderer = NoRenderer
  \/ SDL_GetRendererInfo_Fails(renderer)
  \/ BitAnd(renderer.flags,
            SDL_RENDERER_ACCELERATED + SDL_RENDERER_PRESENTVSYNC)
       # renderFlags(vs, tb)
  \/ vid # renderer.name

\* the mutant of createRenderer that does not write the name of the renderer
\* back to the setting "video"
createRenderer_NoNameWriteBack(renderer, vid, vs, tb, force, sdl) ==
  LET re == recreate(renderer, vid, vs, tb, force)
      now == IF re THEN sdl ELSE renderer
  IN  IF re /\ now = NoRenderer
        THEN [ret |-> FALSE, renderer |-> now, video |-> vid, recreated |-> re]
        ELSE [ret |-> TRUE, renderer |-> now, video |-> vid, recreated |-> re]

\* FrameBufferSDL2::createRenderer; sdl is what SDL_CreateRenderer returns
\* if it is called
createRenderer(renderer, vid, vs, tb, force, sdl) ==
  LET re == recreate(renderer, vid, vs, tb, force)
      now == IF re THEN sdl ELSE renderer
  IN  IF re /\ now = NoRenderer
        THEN [ret |-> FALSE, renderer |-> now, video |-> vid, recreated |-> re]
        ELSE [ret |-> TRUE, renderer |-> now,
              video |-> IF SDL_GetRendererInfo_Fails(now) THEN vid
                        ELSE now.name,
              recreated |-> re]

\* the mutant of the destructor that destroys the renderer before it frees
\* the surfaces
dtor_RendererFirst(renderer, window) ==
  <<"SDL_FreeFormat">>
  \o (IF renderer # NoRenderer
        THEN <<"SDL_DestroyRenderer", "freeSurfaces">> ELSE <<>>)
  \o (IF window
        THEN <<"SDL_SetWindowFullscreen", "SDL_DestroyWindow">> ELSE <<>>)
  \o <<"SDL_QuitSubSystem">>

\* FrameBufferSDL2::~FrameBufferSDL2: the calls it makes, in order
dtor(renderer, window) ==
  <<"SDL_FreeFormat">>
  \o (IF renderer # NoRenderer
        THEN <<"freeSurfaces", "SDL_DestroyRenderer">> ELSE <<>>)
  \o (IF window
        THEN <<"SDL_SetWindowFullscreen", "SDL_DestroyWindow">> ELSE <<>>)
  \o <<"SDL_QuitSubSystem">>

---------------------------------------------------------------------------
(* ToggleWidget (src/src/debugger/gui/ToggleWidget.cxx) *)

\* the C++ operator / on int, which truncates toward zero (b > 0)
CDiv(a, b) == IF a >= 0 THEN a \div b ELSE 0 - ((0 - a) \div b)

\* the shape of twOp: the event, the index it toggled (NoIndex: none) and
\* whether the widget crashed on an access outside the lists
NoTWOp == [op |-> "init", toggled |-> NoIndex, crashed |-> FALSE]

\* a list of n items, none set
AllFalse(n) == [i \in 1 .. n |-> FALSE]

\* the list with the item at C++ index idx negated
Flip(list, idx) == [list EXCEPT ![idx + 1] = ~list[idx + 1]]

\* idx is an index of the list
InList(list, idx) == 0 <= idx /\ idx < Len(list)

\* the toggle widget as its constructor leaves it, used by the runs that are
\* about the cartridge or the frame buffer only
NoToggleWidget ==
  /\ _rows = 1
  /\ _cols = 1
  /\ _rowHeight = 0
  /\ _colWidth = 0
  /\ _currentRow = 0
  /\ _currentCol = 0
  /\ _selectedItem = 0
  /\ _stateList = <<>>
  /\ _changedList = <<>>
  /\ _clicksToChange = 1
  /\ _editable = TRUE
  /\ enabled = TRUE
  /\ twOp = NoTWOp

\* ToggleWidget::findItem
findItem(x, y) ==
  LET row0 == CDiv(y - 1, _rowHeight)
      row == IF row0 >= _rows THEN _rows - 1 ELSE row0
      col0 == CDiv(x, _colWidth)
      col == IF col0 >= _cols THEN _cols - 1 ELSE col0
  IN  row * _cols + col

\* the keys handleKeyDown is given; "other" is any key it does not handle
Keys == {"KBDK_RETURN", "KBDK_KP_ENTER", "KBDK_UP", "KBDK_DOWN", "KBDK_LEFT",
         "KBDK_RIGHT", "KBDK_PAGEUP", "KBDK_PAGEDOWN", "KBDK_HOME",
         "KBDK_END", "other"}

\* the commands handleCommand is given
Commands == {"kSetPositionCmd", "other"}

\* the x a mouse event is given: inside the widget, up to its right edge
MouseXs == 0 .. (_cols * _colWidth)

\* the y a mouse event is given: inside the widget, up to its lower edge
MouseYs == 0 .. (_rows * _rowHeight)

\* the data handleCommand is given
CommandData == (0 - 1) .. (_rows * _cols)

---------------------------------------------------------------------------
(* The state machine *)

\* the shape of lastOp; the fields an operation does not use keep these values
NoOp == [op |-> "init", ret |-> FALSE, req |-> NoBank, banked |-> FALSE,
         fromFresh |-> FALSE, mirror |-> NoMirror,
         baseOk |-> FALSE, flagOk |-> FALSE, faulted |-> FALSE, io |-> <<>>]

NothingSaved == [cur |-> 0, locked |-> FALSE, baseOk |-> FALSE,
                 flagOk |-> FALSE, ret |-> FALSE, io |-> <<>>]

\* the power-on state of an instance: bank 0, banking enabled
Fresh == myCurrentBank = 0 /\ myBankingDisabled = FALSE

\* offsets in the 8K window that the bus issues: around both ends of the hot range
BusOffsets ==
  ((HotLo - Margin) .. (HotLo + MaxHotOffset)) \cup (HotHi .. (HotHi + Margin))

\* the addresses the bus issues: those offsets in the first mirrors
BusAddresses ==
  { U16(m * (ADDR_MASK + 1) + o) : m \in 0 .. MaxMirror, o \in BusOffsets }

\* the constructor: the image as given, bank 0, banking enabled
Init ==
  /\ mySize \in OfferedSizes
  /\ myBankSize \in BankSizes
  /\ constructed = CartridgeTVBoy_ctor(mySize)
  /\ myCurrentBank = 0
  /\ myBankingDisabled = FALSE
  /\ stream = <<>>
  /\ savedFrom = NothingSaved
  /\ lastOp = NoOp
  /\ pending = NoAddr
  /\ NoFrameBuffer
  /\ NoToggleWidget

\* one bus access (peek or poke) at address: the base scheme calls checkSwitchBank
Access(address, isWrite, mirror) ==
  \E r \in { checkSwitchBank(myCurrentBank, myBankingDisabled, address,
                              romBankCount(mySize, myBankSize)) } :
      /\ myCurrentBank' = r.cur
      /\ myBankingDisabled' = r.locked
      /\ lastOp' = [NoOp EXCEPT !.op = IF isWrite THEN "poke" ELSE "peek",
                                !.ret = r.ret, !.req = r.req,
                                !.banked = r.banked, !.fromFresh = Fresh,
                                !.mirror = mirror]
      /\ UNCHANGED <<mySize, myBankSize, stream, savedFrom, constructed>>
      /\ UNCHANGED fbVars
      /\ UNCHANGED twVars

\* the bus issues one of its addresses
BusAccess ==
  /\ constructed
  /\ pending = NoAddr
  /\ \E address \in BusAddresses, isWrite \in BOOLEAN :
       Access(address, isWrite, NoMirror)
  /\ UNCHANGED pending

\* the pending address is issued; the mirror it lies in is kept as history
Issue ==
  /\ constructed
  /\ pending # NoAddr
  /\ \E isWrite \in BOOLEAN :
       Access(pending, isWrite, pending \div (ADDR_MASK + 1))
  /\ pending' = NoAddr

\* reset(): CartridgeTVBoy does not override it; the base scheme's reset
\* re-selects the start bank 0 through the virtual bank()
Reset ==
  LET r == bank(myCurrentBank, myBankingDisabled, 0,
                romBankCount(mySize, myBankSize))
  IN  /\ constructed
      /\ pending = NoAddr
      /\ myCurrentBank' = r.cur
      /\ myBankingDisabled' = r.locked
      /\ lastOp' = [NoOp EXCEPT !.op = "reset", !.banked = r.banked,
                                !.fromFresh = Fresh]
      /\ UNCHANGED <<mySize, myBankSize, stream, savedFrom, constructed,
                     pending>>
      /\ UNCHANGED fbVars
      /\ UNCHANGED twVars

\* the loader constructs a new instance on one of the images it offers (the
\* Serializer is kept)
Construct ==
  /\ pending = NoAddr
  /\ \E size \in OfferedSizes :
       /\ mySize' = size
       /\ constructed' = CartridgeTVBoy_ctor(size)
       /\ lastOp' = [NoOp EXCEPT !.op = "construct",
                                 !.ret = CartridgeTVBoy_ctor(size),
                                 !.fromFresh = Fresh]
  /\ myCurrentBank' = 0
  /\ myBankingDisabled' = FALSE
  /\ UNCHANGED <<myBankSize, stream, savedFrom, pending>>
  /\ UNCHANGED fbVars
  /\ UNCHANGED twVars

\* save(out) into an empty Serializer; each of the two writes may fail
Save ==
  /\ constructed
  /\ pending = NoAddr
  /\ \E failBase \in BOOLEAN, failFlag \in BOOLEAN :
       LET r == save(myCurrentBank, myBankingDisabled, failBase, failFlag)
       IN  /\ stream' = r.s
           /\ savedFrom' = [cur |-> myCurrentBank, locked |-> myBankingDisabled,
                            baseOk |-> r.baseOk, flagOk |-> r.flagOk,
                            ret |-> r.ret, io |-> r.io]
           /\ lastOp' = [NoOp EXCEPT !.op = "save", !.ret = r.ret,
                                     !.fromFresh = Fresh,
                                     !.baseOk = r.baseOk, !.flagOk = r.flagOk,
                                     !.faulted = (failBase \/ failFlag),
                                     !.io = r.io]
  /\ UNCHANGED <<mySize, myBankSize, myCurrentBank, myBankingDisabled,
                 constructed, pending>>
  /\ UNCHANGED fbVars
  /\ UNCHANGED twVars

\* load(in) from the start of the Serializer; each of the two reads may fail
Load ==
  /\ constructed
  /\ pending = NoAddr
  /\ \E failBase \in BOOLEAN, failFlag \in BOOLEAN :
       LET r == load(stream, myCurrentBank, myBankingDisabled, failBase, failFlag)
       IN  /\ myCurrentBank' = r.cur
           /\ myBankingDisabled' = r.locked
           /\ lastOp' = [NoOp EXCEPT !.op = "load", !.ret = r.ret,
                                     !.fromFresh = Fresh,
                                     !.baseOk = r.baseOk, !.flagOk = r.flagOk,
                                     !.faulted = (failBase \/ failFlag),
                                     !.io = r.io]
  /\ UNCHANGED <<mySize, myBankSize, stream, savedFrom, constructed, pending>>
  /\ UNCHANGED fbVars
  /\ UNCHANGED twVars

Next == BusAccess \/ Reset \/ Construct \/ Save \/ Load

Spec == Init /\ [][Next]_vars

\* the accesses a decode run starts after: one outside the hot range (the
\* instance is still fresh) or one that selects a bank 1 .. MaxPrelude
PreludeAddresses == {0} \cup { HotLo + k : k \in 1 .. MaxPrelude }

\* every address of the 16-bit bus, issued once to an instance that is new
\* or has just switched to a non-zero bank
InitDecode ==
  /\ mySize \in ImageSizes
  /\ myBankSize \in BankSizes
  /\ constructed = CartridgeTVBoy_ctor(mySize)
  /\ \E p \in PreludeAddresses :
       \E r \in { checkSwitchBank(0, FALSE, p,
                                  romBankCount(mySize, myBankSize)) } :
          /\ myCurrentBank = r.cur
          /\ myBankingDisabled = r.locked
  /\ stream = <<>>
  /\ savedFrom = NothingSaved
  /\ lastOp = NoOp
  /\ pending \in 0 .. (AddrSpace - 1)
  /\ NoFrameBuffer
  /\ NoToggleWidget

NextDecode == Issue \/ BusAccess \/ Reset

SpecDecode == InitDecode /\ [][NextDecode]_vars

---------------------------------------------------------------------------
(* The frame buffer's state machine *)

\* the constructor, with the settings as the user has them
InitFB ==
  /\ mySize = Size512K
  /\ myBankSize \in BankSizes
  /\ constructed = CartridgeTVBoy_ctor(mySize)
  /\ myCurrentBank = 0
  /\ myBankingDisabled = FALSE
  /\ stream = <<>>
  /\ savedFrom = NothingSaved
  /\ lastOp = NoOp
  /\ pending = NoAddr
  /\ myRenderer = NoRenderer
  /\ myWindow = FALSE
  /\ video \in VideoNames
  /\ vsync \in BOOLEAN
  /\ turbo \in BOOLEAN
  /\ sdlCalls = <<>>
  /\ fbOp = NoFBOp
  /\ NoToggleWidget

\* setVideoMode (not macOS): a window whose display or size changed is
\* destroyed; without a window a new one is created and the renderer is
\* forced; then createRenderer is called
setVideoMode ==
  /\ sdlCalls = <<>>
  /\ \E changed \in BOOLEAN, windowOk \in BOOLEAN, sdl \in SdlRenderers :
       LET keep == myWindow /\ ~changed
           again == fbOp.op = "setVideoMode" /\ fbOp.reached /\ fbOp.ret
       IN  IF ~keep /\ ~windowOk
             THEN /\ myWindow' = FALSE
                  /\ fbOp' = [NoFBOp EXCEPT !.op = "setVideoMode",
                                            !.seq = 1 - fbOp.seq]
                  /\ UNCHANGED <<myRenderer, video>>
             ELSE \E r \in { createRenderer(myRenderer, video, vsync, turbo,
                                            ~keep, sdl) } :
                    /\ myWindow' = TRUE
                    /\ myRenderer' = r.renderer
                    /\ video' = r.video
                    /\ fbOp' = [NoFBOp EXCEPT !.op = "setVideoMode",
                                              !.seq = 1 - fbOp.seq,
                                              !.ret = r.ret,
                                              !.reached = TRUE,
                                              !.force = ~keep,
                                              !.recreated = r.recreated,
                                              !.repeated = again]
  /\ UNCHANGED <<vsync, turbo, sdlCalls>>
  /\ UNCHANGED cartVars
  /\ UNCHANGED twVars

\* the user changes the settings createRenderer reads
ChangeSettings ==
  /\ sdlCalls = <<>>
  /\ \E v \in VideoNames, vs \in BOOLEAN, tb \in BOOLEAN :
       /\ <<v, vs, tb>> # <<video, vsync, turbo>>
       /\ video' = v
       /\ vsync' = vs
       /\ turbo' = tb
  /\ fbOp' = [NoFBOp EXCEPT !.op = "settings", !.seq = 1 - fbOp.seq]
  /\ UNCHANGED <<myRenderer, myWindow, sdlCalls>>
  /\ UNCHANGED cartVars
  /\ UNCHANGED twVars

\* the frame buffer is destroyed
Destroy ==
  /\ sdlCalls = <<>>
  /\ sdlCalls' = dtor(myRenderer, myWindow)
  /\ myRenderer' = NoRenderer
  /\ myWindow' = FALSE
  /\ fbOp' = [NoFBOp EXCEPT !.op = "destroy", !.seq = 1 - fbOp.seq,
                            !.hadRenderer = (myRenderer # NoRenderer),
                            !.hadWindow = myWindow]
  /\ UNCHANGED <<video, vsync, turbo>>
  /\ UNCHANGED cartVars
  /\ UNCHANGED twVars

NextFB == setVideoMode \/ ChangeSettings \/ Destroy

SpecFB == InitFB /\ [][NextFB]_vars

---------------------------------------------------------------------------
(* The toggle widget's state machine *)

\* the widget after the constructor of a subclass (which sets the cell size)
\* and with a list of at most rows * cols items
InitTW ==
  /\ mySize = Size512K
  /\ myBankSize = 4096
  /\ constructed = CartridgeTVBoy_ctor(mySize)
  /\ myCurrentBank = 0
  /\ myBankingDisabled = FALSE
  /\ stream = <<>>
  /\ savedFrom = NothingSaved
  /\ lastOp = NoOp
  /\ pending = NoAddr
  /\ NoFrameBuffer
  /\ _rows \in 1 .. MaxRows
  /\ _cols \in 1 .. MaxCols
  /\ _rowHeight \in 2 .. MaxCell
  /\ _colWidth \in 2 .. MaxCell
  /\ _currentRow = 0
  /\ _currentCol = 0
  /\ _selectedItem = 0
  /\ \E n \in 0 .. (_rows * _cols) :
       /\ _stateList = AllFalse(n)
       /\ _changedList = AllFalse(n)
  /\ _clicksToChange \in 1 .. MaxClicks
  /\ _editable \in BOOLEAN
  /\ enabled \in BOOLEAN
  /\ twOp = NoTWOp

\* _stateList[idx] = !_stateList[idx]; _changedList[idx] = !_changedList[idx]:
\* an index outside the lists is undefined behaviour, after which the lists
\* are as they were or the widget has crashed
ToggleItem(op, idx) ==
  IF InList(_stateList, idx) /\ InList(_changedList, idx)
    THEN /\ _stateList' = Flip(_stateList, idx)
         /\ _changedList' = Flip(_changedList, idx)
         /\ twOp' = [NoTWOp EXCEPT !.op = op, !.toggled = idx]
    ELSE /\ UNCHANGED <<_stateList, _changedList>>
         /\ \E crash \in BOOLEAN :
              twOp' = [NoTWOp EXCEPT !.op = op, !.toggled = idx,
                                     !.crashed = crash]

\* ToggleWidget::handleMouseDown
handleMouseDown ==
  /\ ~twOp.crashed
  /\ \E x \in MouseXs, y \in MouseYs :
       LET found == findItem(x, y)
           newSelectedItem == IF found > Len(_stateList) - 1
                                THEN 0 - 1 ELSE found
           row == CDiv(newSelectedItem, _cols)
       IN  IF enabled /\ _selectedItem # newSelectedItem
             THEN /\ _selectedItem' = newSelectedItem
                  /\ _currentRow' = row
                  /\ _currentCol' = newSelectedItem - (row * _cols)
             ELSE UNCHANGED <<_selectedItem, _currentRow, _currentCol>>
  /\ twOp' = [NoTWOp EXCEPT !.op = "handleMouseDown"]
  /\ UNCHANGED <<_rows, _cols, _rowHeight, _colWidth, _stateList,
                 _changedList, _clicksToChange, _editable, enabled>>
  /\ UNCHANGED cartVars
  /\ UNCHANGED fbVars

\* ToggleWidget::handleMouseUp
handleMouseUp ==
  /\ ~twOp.crashed
  /\ \E x \in MouseXs, y \in MouseYs, clickCount \in 1 .. MaxClicks :
       IF enabled /\ _editable /\ clickCount = _clicksToChange
          /\ _selectedItem = findItem(x, y)
         THEN ToggleItem("handleMouseUp", _selectedItem)
         ELSE /\ twOp' = [NoTWOp EXCEPT !.op = "handleMouseUp"]
              /\ UNCHANGED <<_stateList, _changedList>>
  /\ UNCHANGED <<_rows, _cols, _rowHeight, _colWidth, _currentRow,
                 _currentCol, _selectedItem, _clicksToChange, _editable,
                 enabled>>
  /\ UNCHANGED cartVars
  /\ UNCHANGED fbVars

\* the cursor after the switch of handleKeyDown
KeyMove(key) ==
  CASE key = "KBDK_UP" /\ _currentRow > 0
         -> [row |-> _currentRow - 1, col |-> _currentCol, dirty |-> TRUE]
    [] key = "KBDK_DOWN" /\ _currentRow < _rows - 1
         -> [row |-> _currentRow + 1, col |-> _currentCol, dirty |-> TRUE]
    [] key = "KBDK_LEFT" /\ _currentCol > 0
         -> [row |-> _currentRow, col |-> _currentCol - 1, dirty |-> TRUE]
    [] key = "KBDK_RIGHT" /\ _currentCol < _cols - 1
         -> [row |-> _currentRow, col |-> _currentCol + 1, dirty |-> TRUE]
    [] key = "KBDK_PAGEUP" /\ _currentRow > 0
         -> [row |-> 0, col |-> _currentCol, dirty |-> TRUE]
    [] key = "KBDK_PAGEDOWN" /\ _currentRow < _rows - 1
         -> [row |-> _rows - 1, col |-> _currentCol, dirty |-> TRUE]
    [] key = "KBDK_HOME" /\ _currentCol > 0
         -> [row |-> _currentRow, col |-> 0, dirty |-> TRUE]
    [] key = "KBDK_END" /\ _currentCol < _cols - 1
         -> [row |-> _currentRow, col |-> _cols - 1, dirty |-> TRUE]
    [] key \in {"KBDK_RETURN", "KBDK_KP_ENTER"}
       /\ _currentRow >= 0 /\ _currentCol >= 0
         -> [row |-> _currentRow, col |-> _currentCol, dirty |-> TRUE]
    [] OTHER
         -> [row |-> _currentRow, col |-> _currentCol, dirty |-> FALSE]

\* ToggleWidget::handleKeyDown; modKey: Control or Alt is held
handleKeyDown ==
  /\ ~twOp.crashed
  /\ \E key \in Keys, modKey \in BOOLEAN :
       \E m \in { KeyMove(key) } :
         IF ~modKey /\ m.dirty
           THEN /\ _currentRow' = m.row
                /\ _currentCol' = m.col
                /\ _selectedItem' = m.row * _cols + m.col
                /\ IF key \in {"KBDK_RETURN", "KBDK_KP_ENTER"} /\ _editable
                     THEN ToggleItem("handleKeyDown", m.row * _cols + m.col)
                     ELSE /\ twOp' = [NoTWOp EXCEPT !.op = "handleKeyDown"]
                          /\ UNCHANGED <<_stateList, _changedList>>
           ELSE /\ twOp' = [NoTWOp EXCEPT !.op = "handleKeyDown"]
                /\ UNCHANGED <<_currentRow, _currentCol, _selectedItem,
                               _stateList, _changedList>>
  /\ UNCHANGED <<_rows, _cols, _rowHeight, _colWidth, _clicksToChange,
                 _editable, enabled>>
  /\ UNCHANGED cartVars
  /\ UNCHANGED fbVars

\* ToggleWidget::handleCommand
handleCommand ==
  /\ ~twOp.crashed
  /\ \E cmd \in Commands, data \in CommandData :
       IF cmd = "kSetPositionCmd" /\ _selectedItem # data
         THEN _selectedItem' = data
         ELSE UNCHANGED _selectedItem
  /\ twOp' = [NoTWOp EXCEPT !.op = "handleCommand"]
  /\ UNCHANGED <<_rows, _cols, _rowHeight, _colWidth, _currentRow,
                 _currentCol, _stateList, _changedList, _clicksToChange,
                 _editable, enabled>>
  /\ UNCHANGED cartVars
  /\ UNCHANGED fbVars

NextTW == handleMouseDown \/ handleMouseUp \/ handleKeyDown \/ handleCommand

SpecTW == InitTW /\ [][NextTW]_vars

---------------------------------------------------------------------------
(* Properties *)

BusOps == {"peek", "poke"}

\* the bank count of the instance
Count == romBankCount(mySize, myBankSize)

\* C1: once myBankingDisabled is true, no bus access (read or write, at any
\* address, encoding any bank) changes the current bank or clears the lock.
C1_LockedBankIsKept ==
  [][ (myBankingDisabled /\ lastOp'.op \in BusOps)
        => (myCurrentBank' = myCurrentBank /\ myBankingDisabled') ]_vars

\* C1 witness: a hot-range access asked for another bank than the current,
\* non-zero one and switched nothing.
C1_Witness ==
  /\ lastOp.op \in BusOps /\ lastOp.ret
  /\ myBankingDisabled /\ myCurrentBank # 0
  /\ lastOp.req # myCurrentBank /\ lastOp.req # 0
  /\ ~lastOp.banked

\* C2: a hot-range access that selects a non-zero bank b in an unlocked scheme
\* at bank 0 makes b current and sets the lock in that same step; and no bus
\* access ever ends at a newly selected non-zero bank with the lock clear.
C2_FirstSwitchLocks ==
  [][ /\ (/\ ~myBankingDisabled /\ myCurrentBank = 0
          /\ lastOp'.op \in BusOps /\ lastOp'.ret /\ lastOp'.req # 0)
         => (myCurrentBank' = lastOp'.req /\ myBankingDisabled')
      /\ (/\ lastOp'.op \in BusOps
          /\ myCurrentBank' # myCurrentBank /\ myCurrentBank' # 0)
         => myBankingDisabled' ]_vars

\* C2 witness: the first switch of a new instance, to a non-zero bank.
C2_Witness ==
  /\ lastOp.op \in BusOps /\ lastOp.fromFresh /\ lastOp.banked
  /\ lastOp.req # 0 /\ myCurrentBank = lastOp.req /\ myBankingDisabled

\* C3: a hot-range access that encodes bank 0 in an unlocked scheme at bank 0
\* leaves the scheme unlocked at bank 0.
C3_BankZeroDoesNotLock ==
  [][ (/\ ~myBankingDisabled /\ myCurrentBank = 0
       /\ lastOp'.op \in BusOps /\ lastOp'.ret /\ lastOp'.req = 0)
        => (~myBankingDisabled' /\ myCurrentBank' = 0) ]_vars

\* C3 witness: bank 0 was selected at bank 0 and the scheme is still unlocked.
C3_Witness ==
  /\ lastOp.op \in BusOps /\ lastOp.ret /\ lastOp.req = 0
  /\ lastOp.fromFresh /\ ~myBankingDisabled /\ myCurrentBank = 0

\* C4: after reset() the scheme is in the power-on state: unlocked, at bank 0.
C4_ResetRestoresPowerOn ==
  lastOp.op = "reset" => (~myBankingDisabled /\ myCurrentBank = 0)

\* C5: the bank index checkSwitchBank passes to bank() is within the bank
\* count, and the current bank always lies within the bank count and within
\* the image.
C5_BankInRange ==
  /\ (lastOp.op \in BusOps /\ lastOp.ret)
       => (0 <= lastOp.req /\ lastOp.req < Count)
  /\ 0 <= myCurrentBank /\ myCurrentBank < Count
  /\ myCurrentBank * myBankSize + myBankSize <= mySize

\* C5 witness: the last address of the hot range selected the bank with the
\* highest index a hot-range address encodes, 127.
C5_Witness ==
  /\ lastOp.op \in BusOps /\ lastOp.ret /\ lastOp.banked
  /\ lastOp.req = HotHi - HotLo /\ myCurrentBank = Count - 1

\* C6: a load, into a new instance, of the stream a save has just written
\* (no write and no read failing) succeeds and ends in the bank and with the
\* lock flag the save was called with.
C6_SaveLoadRoundTrip ==
  (/\ lastOp.op = "load" /\ lastOp.fromFresh /\ ~lastOp.faulted
   /\ savedFrom.baseOk /\ savedFrom.flagOk)
    => (/\ lastOp.ret
        /\ myCurrentBank = savedFrom.cur
        /\ myBankingDisabled = savedFrom.locked)

\* C6 witness: the stream of a locked scheme at a non-zero bank was loaded
\* into a new instance.
C6_Witness ==
  /\ lastOp.op = "load" /\ lastOp.fromFresh /\ ~lastOp.faulted
  /\ savedFrom.baseOk /\ savedFrom.flagOk
  /\ savedFrom.cur # 0 /\ savedFrom.locked
  /\ myCurrentBank = savedFrom.cur /\ myBankingDisabled

\* C7: a load in which a read failed leaves the current bank and the lock
\* flag as they were before the load.
C7_FailedLoadChangesNothing ==
  [][ (lastOp'.op = "load" /\ ~(lastOp'.baseOk /\ lastOp'.flagOk))
        => (myCurrentBank' = myCurrentBank
            /\ myBankingDisabled' = myBankingDisabled) ]_vars

\* C8: load returns true exactly when the base scheme's load and the read of
\* the lock flag both succeeded.
C8_LoadReportsFailure ==
  lastOp.op = "load" => (lastOp.ret <=> (lastOp.baseOk /\ lastOp.flagOk))

\* C9: save returns true exactly when the base scheme's save and the write of
\* the lock flag both succeeded.
C9_SaveReportsFailure ==
  lastOp.op = "save" => (lastOp.ret <=> (lastOp.baseOk /\ lastOp.flagOk))

\* C10: save writes the base scheme's fields first and the lock flag last,
\* and load reads the fields of a saved stream at the positions and in the
\* order save wrote them.
C10_SameFieldOrder ==
  /\ (lastOp.op = "save" /\ lastOp.baseOk /\ lastOp.flagOk)
       => lastOp.io = << [field |-> "base", pos |-> 1],
                         [field |-> "myBankingDisabled", pos |-> 2] >>
  /\ (/\ lastOp.op = "load" /\ ~lastOp.faulted
      /\ savedFrom.baseOk /\ savedFrom.flagOk)
       => lastOp.io = savedFrom.io

\* C10 witness: a load read both fields of a stream that a save wrote in full.
C10_Witness ==
  /\ lastOp.op = "load" /\ ~lastOp.faulted
  /\ savedFrom.baseOk /\ savedFrom.flagOk
  /\ Len(lastOp.io) = 2 /\ lastOp.io = savedFrom.io

Masked(address) == BitAnd(address, ADDR_MASK)

\* the address about to be issued lies in the hot range
PendingIsHot ==
  pending # NoAddr /\ Masked(pending) >= HotLo /\ Masked(pending) <= HotHi

\* the bank counts of the layout the scheme declares: 512KB in banks of one
\* of the bank sizes
SupportedBankCounts == { romBankCount(Size512K, bs) : bs \in BankSizes }

\* C13: an access whose masked address is below 0x1800 or above 0x187F makes
\* checkSwitchBank return false and leaves the current bank and the lock as
\* they were.
C13_OutsideHotRangeNoEffect ==
  [][ (pending # NoAddr /\ ~PendingIsHot)
        => (/\ ~lastOp'.ret /\ ~lastOp'.banked
            /\ myCurrentBank' = myCurrentBank
            /\ myBankingDisabled' = myBankingDisabled) ]_vars

\* C13 witness: after a bank switch, an address outside the hot range was
\* issued and the scheme is still locked at its non-zero bank.
C13_Witness ==
  /\ lastOp.op \in BusOps /\ lastOp.mirror # NoMirror /\ ~lastOp.ret
  /\ myBankingDisabled /\ myCurrentBank # 0

C16_MirrorIndependence ==
  [][ pending # NoAddr
        => \E r \in { checkSwitchBank(myCurrentBank, myBankingDisabled,
                                      Masked(pending), Count) } :
              /\ lastOp'.ret = r.ret
              /\ lastOp'.banked = r.banked
              /\ myCurrentBank' = r.cur
              /\ myBankingDisabled' = r.locked ]_vars

\* C16 witness: a hot-range address of a mirror above the first one switched
\* the bank.
C16_Witness ==
  /\ lastOp.op \in BusOps /\ lastOp.mirror >= 1
  /\ lastOp.ret /\ lastOp.banked /\ myCurrentBank # 0

\* C17: a hot-range access makes checkSwitchBank return true whatever the
\* lock; when the scheme is locked, the current bank and the lock stay as
\* they were.
C17_LockedStillDecodes ==
  [][ PendingIsHot
        => (/\ lastOp'.ret
            /\ (myBankingDisabled
                  => (/\ myCurrentBank' = myCurrentBank
                      /\ myBankingDisabled'))) ]_vars

\* C17 witness: a locked scheme decoded a hot-range address that asked for
\* another bank, and switched nothing.
C17_Witness ==
  /\ lastOp.op \in BusOps /\ lastOp.mirror # NoMirror /\ lastOp.ret
  /\ myBankingDisabled /\ ~lastOp.banked
  /\ lastOp.req # myCurrentBank

\* the renderer's accelerated and vsync flags are the ones createRenderer
\* would ask for
FlagsAsRequested ==
  /\ myRenderer # NoRenderer
  /\ BitAnd(myRenderer.flags,
            SDL_RENDERER_ACCELERATED + SDL_RENDERER_PRESENTVSYNC)
       = renderFlags(vsync, turbo)

\* a step in which createRenderer creates a renderer exactly when it is
\* forced, there is none, the flags differ or the name differs
RecreatedIffNecessary ==
  (fbOp'.op = "setVideoMode" /\ fbOp'.reached)
    => (fbOp'.recreated
          <=> (\/ fbOp'.force
               \/ myRenderer = NoRenderer
               \/ ~FlagsAsRequested
               \/ myRenderer.name # video))

\* C18 as claimed: a renderer is created if and only if force is set, no
\* renderer exists, the flags differ or the name differs; and a call of
\* createRenderer(false) that follows a successful call, with no change of the
\* settings in between, keeps the renderer.
C18_KeptAcrossRepeatedCalls ==
  [][ /\ RecreatedIffNecessary
      /\ (fbOp'.op = "setVideoMode" /\ fbOp'.reached /\ fbOp'.repeated
            /\ ~fbOp'.force)
          => (~fbOp'.recreated /\ myRenderer' = myRenderer) ]_vars

\* C18 as amended: the same, where the repeated call keeps the renderer
\* provided the renderer's accelerated/vsync flags are the requested ones.
C18_KeptWhenFlagsAsRequested ==
  [][ /\ RecreatedIffNecessary
      /\ (fbOp'.op = "setVideoMode" /\ fbOp'.reached /\ fbOp'.repeated
            /\ ~fbOp'.force /\ FlagsAsRequested)
          => (~fbOp'.recreated /\ myRenderer' = myRenderer) ]_vars

\* C18 witness: a repeated createRenderer(false) kept the renderer, whose name
\* the earlier call had written to the setting "video".
C18_Witness ==
  /\ fbOp.op = "setVideoMode" /\ fbOp.reached /\ fbOp.repeated
  /\ ~fbOp.force /\ ~fbOp.recreated /\ fbOp.ret
  /\ myRenderer # NoRenderer /\ video = myRenderer.name

\* the position of a call among the calls of the destructor (0: not made)
Pos(call) ==
  IF \E i \in DOMAIN sdlCalls : sdlCalls[i] = call
    THEN CHOOSE i \in DOMAIN sdlCalls : sdlCalls[i] = call
    ELSE 0

\* C19: in the destructor, if there was a renderer the surfaces are freed
\* before the renderer is destroyed, the renderer is destroyed before the
\* window, and the video subsystem is quit last, after both.
C19_TeardownOrder ==
  sdlCalls # <<>>
    => (/\ \A i, j \in DOMAIN sdlCalls : sdlCalls[i] = sdlCalls[j] => i = j
        /\ fbOp.hadRenderer
             => (/\ 0 < Pos("freeSurfaces")
                 /\ Pos("freeSurfaces") < Pos("SDL_DestroyRenderer"))
        /\ fbOp.hadWindow => 0 < Pos("SDL_DestroyWindow")
        /\ (fbOp.hadRenderer /\ fbOp.hadWindow)
             => Pos("SDL_DestroyRenderer") < Pos("SDL_DestroyWindow")
        /\ Pos("SDL_QuitSubSystem") = Len(sdlCalls)
        /\ myRenderer = NoRenderer /\ ~myWindow)

\* C19 witness: a frame buffer with a renderer and a window was destroyed.
C19_Witness ==
  /\ fbOp.op = "destroy" /\ fbOp.hadRenderer /\ fbOp.hadWindow
  /\ Pos("freeSurfaces") > 0 /\ Pos("SDL_DestroyWindow") > 0

\* C20: whatever bus reads and writes a new instance has seen, the lock is
\* set exactly when the current bank is not bank 0.
C20_LockedIffNonZeroBank ==
  myBankingDisabled <=> (myCurrentBank # 0)

\* C20 witness: a bus access has moved a new instance to a non-zero bank.
C20_Witness ==
  /\ lastOp.op \in BusOps /\ lastOp.fromFresh /\ lastOp.banked
  /\ myCurrentBank # 0

\* the operations that call bank(): the bus accesses, through
\* checkSwitchBank, and reset
BankCallers == BusOps \cup {"reset"}

\* C21: when bank() has returned false, whether the scheme was locked or the
\* base scheme refused, the current bank and the lock are what they were; and
\* no bus access takes the lock from set back to clear.
C21_LockOnlyBySwitch ==
  [][ /\ (lastOp'.op \in BankCallers /\ ~lastOp'.banked)
          => (/\ myCurrentBank' = myCurrentBank
              /\ myBankingDisabled' = myBankingDisabled)
      /\ (lastOp'.op \in BusOps /\ myBankingDisabled)
          => myBankingDisabled' ]_vars

\* C21 witness: bank() was called by a hot-range access in an unlocked scheme
\* and returned false because the base scheme refused.
C21_Witness ==
  /\ lastOp.op \in BusOps /\ lastOp.ret /\ ~lastOp.banked
  /\ ~myBankingDisabled /\ lastOp.req = myCurrentBank

\* C22: every toggle made by handleMouseUp or by Return/Enter in
\* handleKeyDown uses an index inside the list:
\* 0 <= _selectedItem < _stateList.size().
C22_ToggleInBounds ==
  twOp.toggled # NoIndex
    => (/\ twOp.toggled = _selectedItem
        /\ 0 <= twOp.toggled /\ twOp.toggled < Len(_stateList))

\* C23: the cursor is inside the grid and the selected item is the one under
\* the cursor: 0 <= _currentRow < _rows, 0 <= _currentCol < _cols and
\* _selectedItem = _currentRow * _cols + _currentCol.
C23_CursorConsistent ==
  /\ 0 <= _currentRow /\ _currentRow < _rows
  /\ 0 <= _currentCol /\ _currentCol < _cols
  /\ _selectedItem = _currentRow * _cols + _currentCol

===========================================================================
